---- MODULE Spec2Model ----
(***************************************************************************)
(* A state-machine model of examples/ccapture/capture.c: the V4L2 memory-  *)
(* mapped capture example.  The program is one sequential process; pc is   *)
(* its position, one value per external call (getopt_long, stat, open,     *)
(* each ioctl, calloc, mmap, select, munmap, free, close).  Every result   *)
(* the operating system or the device can hand back is drawn with \E.      *)
(***************************************************************************)
EXTENDS Integers, Sequences, FiniteSets

\* ------------------------------------------------------------- bounds
\* Options on the command line.
MaxArgs == 2
\* Largest buffer count the device grants to VIDIOC_REQBUFS.
MaxGrant == 3
\* Successful dequeues the device performs in one run (caps the frame loop).
MaxFrames == 5
\* EAGAIN answers to VIDIOC_DQBUF counted in one run (the device may give
\* more; nAgain stays at the bound).
MaxAgain == 2
\* EINTR answers (ioctl or select) in one run.
MaxIntr == 1

\* ------------------------------------------------- program constants
EXIT_SUCCESS == 0
EXIT_FAILURE == 1
\* static int frame_count = 70;
DefaultFrameCount == 70
\* if (req.count < 2)
MinBuffers == 2
\* An unsigned int is 32 bits wide: two half words of 16 bits, each 0..HalfWord-1
\* (the model checker's own integers are 32 bits wide and signed, so an unsigned
\* int is kept as the record [hi, lo] of its half words).
HalfWord == 65536
\* INT_MAX
IntMax == 2147483647

VARIABLES
    args,           \* the options getopt_long has still to return
    c,              \* main: int c, the option getopt_long returned last
    pc,             \* the call the process is at
    dev_name, fd, buffers, n_buffers, out_buf, force_format, frame_count,
    req_count,      \* init_mmap: req.count after VIDIOC_REQBUFS
    i,              \* the loop index of start_capturing and uninit_device
    count,          \* mainloop: unsigned int count
    buf_index,      \* read_frame: buf.index
    buf_bytesused,  \* read_frame: buf.bytesused
    fmt,            \* init_device: fmt.fmt.pix after negotiation
    pool,           \* the storage calloc returned: "none", "allocated", "freed"
    mapped,         \* the buffer indices whose mmap region is mapped
    devLen,         \* the length VIDIOC_QUERYBUF reported for each index
    devOwned,       \* the buffer indices queued at the device
    procOwned,      \* the buffer indices read_frame holds dequeued in buf
    queuedLog,      \* the indices start_capturing has queued, in order
    streamState,    \* the device's stream: "off", "on", "stopped"
    nDequeued,      \* successful VIDIOC_DQBUF calls
    dqbuf_errno,    \* errno after VIDIOC_DQBUF failed, in the call of read_frame
                    \* made last ("none" once read_frame is called again)
    delivered,      \* calls of process_image (progress marks on stderr)
    stdoutFrames,   \* frames process_image wrote to stdout
    nAgain, nIntr,  \* EAGAIN answers (counted up to MaxAgain) and EINTR answers
    term,           \* "running", "exit" (exit or return from main), "abort"
    exit_status,    \* the exit code, once term = "exit"
    diag,           \* the diagnostic written to stderr at the exit
    crop_errno,     \* errno of a failed VIDIOC_CROPCAP or VIDIOC_S_CROP, until
                    \* the format is negotiated ("none" otherwise)
    stalled,        \* select has returned 0 (its timeout ran out)
    queryLog,       \* the indices VIDIOC_QUERYBUF has answered for, in order
    mapLog,         \* the indices whose region mmap has mapped, in order
    unmapLog,       \* the indices whose region munmap has unmapped, in order
    nFree           \* calls of free(buffers)

vars == <<args, c, pc, dev_name, fd, buffers, n_buffers, out_buf, force_format,
          frame_count, req_count, i, count, buf_index, buf_bytesused,
          fmt, pool, mapped, devLen, devOwned, procOwned, queuedLog,
          streamState,
          nDequeued, dqbuf_errno, delivered, stdoutFrames, nAgain, nIntr, term,
          exit_status, diag, crop_errno, stalled, queryLog, mapLog, unmapLog,
          nFree>>

\* The variable groups the actions leave alone.
optVars  == <<dev_name, out_buf, force_format, frame_count>>
poolVars == <<buffers, n_buffers, req_count, pool, mapped, devLen>>
devVars  == <<devOwned, procOwned, queuedLog, streamState>>
loopVars == <<count, buf_index, buf_bytesused, nDequeued, dqbuf_errno, delivered,
             stdoutFrames, nAgain>>
termVars == <<term, exit_status, diag>>
logVars  == <<queryLog, mapLog, unmapLog, nFree>>
obsVars  == <<crop_errno, stalled, logVars>>

\* ------------------------------------------------------------ helpers
\* A long is 64 bits wide: the record [hi, lo] of its two 32-bit words, each
\* written as the signed int with the same bits.
Long(h, l) == [hi |-> h, lo |-> l]

\* The values strtol returns for the --count arguments tried:
\* -1, 0, 1, 2, 5 and 4294967297 (2^32 + 1).
CountVals == {Long(-1, -1), Long(0, 0), Long(0, 1), Long(0, 2), Long(0, 5), Long(1, 1)}

\* What getopt_long returns: c and, for 'c', strtol's result and whether it
\* set errno (ERANGE).  'm' and 'f' are in short_options and long_options;
\* "?" is an option getopt_long does not know.
Options ==
    {[c |-> o, val |-> Long(0, 0), erange |-> FALSE] : o \in {"d", "h", "m", "o", "f", "?"}}
    \cup {[c |-> "c", val |-> v, erange |-> FALSE] : v \in CountVals}
    \cup {[c |-> "c", val |-> Long(IntMax, -1), erange |-> TRUE]}

ArgSeqs == UNION {[1..n -> Options] : n \in 0..MaxArgs}

\* long to int, frame_count = strtol(...): the low 32 bits are kept.
ToInt(x) == x.lo

\* A frame budget one too large: count = frame_count + 1.
ToUnsigned_plus1(x) ==
    IF x + 1 >= 0
      THEN [hi |-> (x + 1) \div HalfWord, lo |-> (x + 1) % HalfWord]
      ELSE LET y == (x + 1 + IntMax) + 1 IN
           [hi |-> (y \div HalfWord) + (HalfWord \div 2), lo |-> y % HalfWord]

\* A negative frame count taken as no frames at all.
ToUnsigned_clamp(x) ==
    IF x >= 0
      THEN [hi |-> x \div HalfWord, lo |-> x % HalfWord]
      ELSE [hi |-> 0, lo |-> 0]

\* int to unsigned int, count = frame_count: x mod 2^32, as half words.
ToUnsigned(x) ==
    IF x >= 0
      THEN [hi |-> x \div HalfWord, lo |-> x % HalfWord]
      ELSE LET y == (x + IntMax) + 1 IN
           [hi |-> (y \div HalfWord) + (HalfWord \div 2), lo |-> y % HalfWord]

\* The unsigned int 0.
UZero == [hi |-> 0, lo |-> 0]

\* count--: one less, modulo 2^32.
UDec(u) ==
    IF u.lo > 0 THEN [u EXCEPT !.lo = u.lo - 1]
    ELSE IF u.hi > 0 THEN [hi |-> u.hi - 1, lo |-> HalfWord - 1]
    ELSE [hi |-> HalfWord - 1, lo |-> HalfWord - 1]

\* The errno values a failed ioctl is tried with.
Errnos == {"EINVAL", "EIO", "EAGAIN", "EBUSY"}

\* The buffer lengths the device reports to VIDIOC_QUERYBUF.
BufLengths == {1, 2}

\* exit(code) after the message msg on stderr (or stdout, for the usage).
Exit(code, msg) ==
    /\ term' = "exit"
    /\ exit_status' = code
    /\ diag' = [msg |-> msg, errno |-> "none"]
    /\ pc' = "exited"

\* errno_exit ending in exit(EXIT_SUCCESS).
errno_exit_success(s, e) ==
    /\ term' = "exit"
    /\ exit_status' = EXIT_SUCCESS
    /\ diag' = [msg |-> s, errno |-> e]
    /\ pc' = "exited"

\* errno_exit(s), with errno = e:
\* fprintf(stderr, "%s error %d, %s\n", s, errno, strerror(errno)); exit(EXIT_FAILURE)
errno_exit(s, e) ==
    /\ term' = "exit"
    /\ exit_status' = EXIT_FAILURE
    /\ diag' = [msg |-> s, errno |-> e]
    /\ pc' = "exited"

Init ==
    /\ args \in ArgSeqs
    /\ c = ""
    /\ pc = "getopt"
    /\ dev_name = "/dev/video0"
    /\ fd = -1
    /\ buffers = [k \in {} |-> 0]
    /\ n_buffers = 0
    /\ out_buf = 0
    /\ force_format = 0
    /\ frame_count = DefaultFrameCount
    /\ req_count = 0
    /\ i = 0
    /\ count = UZero
    /\ buf_index = 0
    /\ buf_bytesused = 0
    /\ fmt = [width |-> 0, height |-> 0]
    /\ pool = "none"
    /\ mapped = {}
    /\ devLen = [k \in {} |-> 0]
    /\ devOwned = {}
    /\ procOwned = {}
    /\ queuedLog = <<>>
    /\ streamState = "off"
    /\ nDequeued = 0
    /\ dqbuf_errno = "none"
    /\ delivered = 0
    /\ stdoutFrames = 0
    /\ nAgain = 0
    /\ nIntr = 0
    /\ term = "running"
    /\ exit_status = 0
    /\ diag = [msg |-> "", errno |-> "none"]
    /\ crop_errno = "none"
    /\ stalled = FALSE
    /\ queryLog = <<>>
    /\ mapLog = <<>>
    /\ unmapLog = <<>>
    /\ nFree = 0

\* ------------------------------------------------------------- main
\* main without its call of start_capturing.
main_next_no_start(f) ==
    CASE f = "getopt"          -> "stat"
      [] f = "open_device"     -> "QUERYCAP"
      [] f = "init_device"     -> "mainloop"
      [] f = "start_capturing" -> "mainloop"
      [] f = "mainloop"        -> "STREAMOFF"
      [] f = "stop_capturing"  -> "munmap"
      [] f = "uninit_device"   -> "close"
      [] f = "close_device"    -> "return"

\* main calling uninit_device before stop_capturing.
main_next_uninit_first(f) ==
    CASE f = "getopt"          -> "stat"
      [] f = "open_device"     -> "QUERYCAP"
      [] f = "init_device"     -> "QBUF_init"
      [] f = "start_capturing" -> "mainloop"
      [] f = "mainloop"        -> "munmap"
      [] f = "uninit_device"   -> "STREAMOFF"
      [] f = "stop_capturing"  -> "close"
      [] f = "close_device"    -> "return"

\* main's sequence of calls: the first call site of the function main calls
\* after f returns.
main_next(f) ==
    CASE f = "getopt"          -> "stat"
      [] f = "open_device"     -> "QUERYCAP"
      [] f = "init_device"     -> "QBUF_init"
      [] f = "start_capturing" -> "mainloop"
      [] f = "mainloop"        -> "STREAMOFF"
      [] f = "stop_capturing"  -> "munmap"
      [] f = "uninit_device"   -> "close"
      [] f = "close_device"    -> "return"

\* One turn of main's option loop: getopt_long and the switch on c.
main_getopt ==
    /\ pc = "getopt"
    /\ IF args = <<>>
         THEN /\ c' = "-1"
              /\ pc' = main_next("getopt")
              /\ UNCHANGED <<args, optVars, termVars>>
         ELSE LET o == Head(args) IN
              /\ args' = Tail(args)
              /\ c' = o.c
              /\ CASE o.c = "d" ->
                        /\ dev_name' = "optarg"
                        /\ UNCHANGED <<pc, out_buf, force_format, frame_count, termVars>>
                   [] o.c = "h" ->
                        /\ Exit(EXIT_SUCCESS, "usage")
                        /\ UNCHANGED optVars
                   [] o.c = "o" ->
                        /\ out_buf' = out_buf + 1
                        /\ UNCHANGED <<pc, dev_name, force_format, frame_count, termVars>>
                   [] o.c = "c" ->
                        /\ frame_count' = ToInt(o.val)
                        /\ IF o.erange
                             THEN errno_exit("optarg", "ERANGE")
                             ELSE UNCHANGED <<pc, termVars>>
                        /\ UNCHANGED <<dev_name, out_buf, force_format>>
                   [] OTHER ->
                        /\ Exit(EXIT_FAILURE, "usage")
                        /\ UNCHANGED optVars
    /\ UNCHANGED <<fd, fmt, i, poolVars, devVars, loopVars, nIntr, obsVars>>

\* The calls made through xioctl.
IoctlSites == {"QUERYCAP", "CROPCAP", "S_CROP", "FMT", "REQBUFS", "QUERYBUF",
               "QBUF_init", "STREAMON", "DQBUF", "QBUF", "STREAMOFF"}

\* xioctl without its loop: an interrupted ioctl is handed to the caller as a
\* failure, which ends the process.
xioctl_no_retry ==
    /\ pc \in IoctlSites
    /\ nIntr < MaxIntr
    /\ nIntr' = nIntr + 1
    /\ errno_exit(pc, "EINTR")
    /\ UNCHANGED <<args, c, obsVars, optVars, fd, fmt, i, poolVars, devVars, loopVars>>

\* xioctl: do { r = ioctl(...); } while (-1 == r && EINTR == errno);
\* an interrupted ioctl is issued again, and nothing else changes.
xioctl ==
    /\ pc \in IoctlSites
    /\ nIntr < MaxIntr
    /\ nIntr' = nIntr + 1
    /\ UNCHANGED <<args, c, obsVars, pc, optVars, fd, fmt, i, poolVars, devVars, loopVars,
                   termVars>>

\* ------------------------------------------------------ open_device
open_device_stat ==
    /\ pc = "stat"
    /\ \E r \in {"fail", "nochr", "chr"} :
         CASE r = "fail"  -> Exit(EXIT_FAILURE, "Cannot identify")
           [] r = "nochr" -> Exit(EXIT_FAILURE, "is no device")
           [] OTHER       -> /\ pc' = "open"
                             /\ UNCHANGED termVars
    /\ UNCHANGED <<args, c, obsVars, optVars, fd, fmt, i, poolVars, devVars, loopVars, nIntr>>

open_device_open ==
    /\ pc = "open"
    /\ \/ /\ Exit(EXIT_FAILURE, "Cannot open")
          /\ UNCHANGED fd
       \/ /\ fd' = 3
          /\ pc' = main_next("open_device")
          /\ UNCHANGED termVars
    /\ UNCHANGED <<args, c, obsVars, optVars, fmt, i, poolVars, devVars, loopVars, nIntr>>

\* ------------------------------------------------------ init_device
\* VIDIOC_QUERYCAP and the two capability tests.
init_device_QUERYCAP ==
    /\ pc = "QUERYCAP"
    /\ \/ \E e \in Errnos :
            IF e = "EINVAL" THEN Exit(EXIT_FAILURE, "is no V4L2 device")
                            ELSE errno_exit("VIDIOC_QUERYCAP", e)
       \/ \E cap \in SUBSET {"VIDEO_CAPTURE", "STREAMING"} :
            IF "VIDEO_CAPTURE" \notin cap
              THEN Exit(EXIT_FAILURE, "is no video capture device")
            ELSE IF "STREAMING" \notin cap
              THEN Exit(EXIT_FAILURE, "does not support streaming i/o")
            ELSE /\ pc' = "CROPCAP"
                 /\ UNCHANGED termVars
    /\ UNCHANGED <<args, c, obsVars, optVars, fd, fmt, i, poolVars, devVars, loopVars, nIntr>>

\* VIDIOC_CROPCAP: a failure, whatever its errno, is ignored.
init_device_CROPCAP ==
    /\ pc = "CROPCAP"
    /\ \/ /\ pc' = "S_CROP"
          /\ UNCHANGED crop_errno
       \/ \E e \in Errnos :
            /\ crop_errno' = e
            /\ pc' = "FMT"
    /\ UNCHANGED <<args, c, stalled, logVars, optVars, fd, fmt, i, poolVars, devVars,
                   loopVars, nIntr, termVars>>

\* VIDIOC_S_CROP failing with anything but EINVAL taken as fatal.
init_device_S_CROP_fatal ==
    /\ pc = "S_CROP"
    /\ \E r \in {"ok"} \cup Errnos :
         /\ crop_errno' = IF r = "ok" THEN "none" ELSE r
         /\ IF r \in {"ok", "EINVAL"}
              THEN /\ pc' = "FMT"
                   /\ UNCHANGED termVars
              ELSE errno_exit("VIDIOC_S_CROP", r)
    /\ UNCHANGED <<args, c, stalled, logVars, optVars, fd, fmt, i, poolVars, devVars,
                   loopVars, nIntr>>

\* VIDIOC_S_CROP: a failure, EINVAL or another, is ignored.
init_device_S_CROP ==
    /\ pc = "S_CROP"
    /\ \E r \in {"ok"} \cup Errnos :
         /\ crop_errno' = IF r = "ok" THEN "none" ELSE r
         /\ pc' = "FMT"
    /\ UNCHANGED <<args, c, stalled, logVars, optVars, fd, fmt, i, poolVars, devVars,
                   loopVars, nIntr, termVars>>

\* The formats the device answers with: to VIDIOC_S_FMT (640x480 asked) the
\* size it honours, to VIDIOC_G_FMT its current one.
DeviceFormats(forced) ==
    IF forced THEN {[width |-> 640, height |-> 480], [width |-> 640, height |-> 360]}
              ELSE {[width |-> 640, height |-> 480]}

\* VIDIOC_S_FMT if force_format, else VIDIOC_G_FMT.
init_device_FMT ==
    /\ pc = "FMT"
    /\ crop_errno' = "none"
    /\ \/ \E e \in Errnos :
            /\ errno_exit(IF force_format # 0 THEN "VIDIOC_S_FMT" ELSE "VIDIOC_G_FMT", e)
            /\ UNCHANGED fmt
       \/ \E f \in DeviceFormats(force_format # 0) :
            /\ fmt' = f
            /\ pc' = "REQBUFS"
            /\ UNCHANGED termVars
    /\ UNCHANGED <<args, c, stalled, logVars, optVars, fd, i, poolVars, devVars, loopVars, nIntr>>

\* -------------------------------------------------------- init_mmap
\* A grant of one buffer taken as enough: if (req.count < 1).
init_mmap_insufficient_lt1(granted) == granted < 1

\* if (req.count < 2): the grant is too small to capture with.
init_mmap_insufficient(granted) == granted < MinBuffers

\* VIDIOC_REQBUFS (req.count = 4 asked; the device sets req.count to what it
\* grants), and the test of the grant.
init_mmap_REQBUFS ==
    /\ pc = "REQBUFS"
    /\ \/ \E e \in Errnos :
            /\ IF e = "EINVAL"
                 THEN Exit(EXIT_FAILURE, "does not support memory mapping")
                 ELSE errno_exit("VIDIOC_REQBUFS", e)
            /\ UNCHANGED req_count
       \/ \E g \in 1..MaxGrant :
            /\ req_count' = g
            /\ IF init_mmap_insufficient(g)
                 THEN Exit(EXIT_FAILURE, "Insufficient buffer memory")
                 ELSE /\ pc' = "calloc"
                      /\ UNCHANGED termVars
    /\ UNCHANGED <<args, c, obsVars, optVars, fd, fmt, i, buffers, n_buffers, pool, mapped,
                   devLen, devVars, loopVars, nIntr>>

\* buffers = calloc(req.count, sizeof(*buffers)); n_buffers = 0
init_mmap_calloc ==
    /\ pc = "calloc"
    /\ \/ /\ Exit(EXIT_FAILURE, "Out of memory")
          /\ UNCHANGED <<buffers, pool, n_buffers, devLen>>
       \/ /\ buffers' = [k \in 0..(req_count - 1) |-> [start |-> 0, length |-> 0]]
          /\ devLen' = [k \in 0..(req_count - 1) |-> 0]
          /\ pool' = "allocated"
          /\ n_buffers' = 0
          /\ pc' = "QUERYBUF"
          /\ UNCHANGED termVars
    /\ UNCHANGED <<args, c, obsVars, optVars, fd, fmt, i, req_count, mapped, devVars,
                   loopVars, nIntr>>

\* Every query asking for buffer 0: buf.index = 0.
init_mmap_buf_index_zero(n) == 0

\* buf.index = n_buffers: the index init_mmap asks VIDIOC_QUERYBUF about in
\* the turn of the loop that fills buffers[n].
init_mmap_buf_index(n) == n

\* VIDIOC_QUERYBUF of buf.index; buffers[n_buffers].length = buf.length
init_mmap_QUERYBUF ==
    /\ pc = "QUERYBUF"
    /\ \/ \E e \in Errnos :
            /\ errno_exit("VIDIOC_QUERYBUF", e)
            /\ UNCHANGED <<buffers, devLen, queryLog>>
       \/ \E len \in BufLengths :
            LET q == init_mmap_buf_index(n_buffers) IN
            /\ devLen' = [devLen EXCEPT ![q] = len]
            /\ buffers' = [buffers EXCEPT ![n_buffers].length = len]
            /\ queryLog' = Append(queryLog, q)
            /\ pc' = "mmap"
            /\ UNCHANGED termVars
    /\ UNCHANGED <<args, c, crop_errno, stalled, mapLog, unmapLog, nFree, optVars, fd,
                   fmt, i, n_buffers, req_count, pool, mapped, devVars, loopVars,
                   nIntr>>

\* buffers[n_buffers].start = mmap(..., buf.m.offset), the region of the buffer
\* just queried; ++n_buffers and the loop test.  When the loop ends init_mmap
\* and init_device return, and start_capturing begins.
init_mmap_mmap ==
    /\ pc = "mmap"
    /\ LET q == init_mmap_buf_index(n_buffers) IN
       \/ /\ buffers' = [buffers EXCEPT ![n_buffers].start = -1]
          /\ errno_exit("mmap", "ENOMEM")
          /\ UNCHANGED <<mapped, mapLog, n_buffers, i>>
       \/ /\ buffers' = [buffers EXCEPT ![n_buffers].start = q + 1]
          /\ mapped' = mapped \cup {q}
          /\ mapLog' = Append(mapLog, q)
          /\ n_buffers' = n_buffers + 1
          /\ IF n_buffers + 1 < req_count
               THEN /\ pc' = "QUERYBUF"
                    /\ UNCHANGED i
               ELSE /\ pc' = main_next("init_device")
                    /\ i' = 0
          /\ UNCHANGED termVars
    /\ UNCHANGED <<args, c, crop_errno, stalled, queryLog, unmapLog, nFree, optVars, fd,
                   fmt, req_count, pool, devLen, devVars, loopVars, nIntr>>

\* -------------------------------------------------- start_capturing
\* The buffers of the pool.
Pool == 0..(n_buffers - 1)

\* VIDIOC_QBUF of index i, ++i and the loop test.
start_capturing_QBUF ==
    /\ pc = "QBUF_init"
    /\ \/ \E e \in Errnos :
            /\ errno_exit("VIDIOC_QBUF", e)
            /\ UNCHANGED <<i, devOwned, queuedLog>>
       \/ /\ devOwned' = devOwned \cup {i}
          /\ queuedLog' = Append(queuedLog, i)
          /\ i' = i + 1
          /\ pc' = IF i + 1 < n_buffers THEN "QBUF_init" ELSE "STREAMON"
          /\ UNCHANGED termVars
    /\ UNCHANGED <<args, c, obsVars, optVars, fd, fmt, poolVars, procOwned, streamState,
                   loopVars, nIntr>>

start_capturing_STREAMON ==
    /\ pc = "STREAMON"
    /\ \/ \E e \in Errnos :
            /\ errno_exit("VIDIOC_STREAMON", e)
            /\ UNCHANGED <<i, streamState>>
       \/ /\ streamState' = "on"
          /\ i' = 0
          /\ pc' = main_next("start_capturing")
          /\ UNCHANGED termVars
    /\ UNCHANGED <<args, c, obsVars, optVars, fd, fmt, poolVars, devOwned, procOwned, queuedLog,
                   loopVars, nIntr>>

\* --------------------------------------------------------- mainloop
\* count = frame_count
mainloop_enter ==
    /\ pc = "mainloop"
    /\ count' = ToUnsigned(frame_count)
    /\ pc' = "while"
    /\ UNCHANGED <<args, c, obsVars, optVars, fd, fmt, i, poolVars, devVars, buf_index,
                   buf_bytesused, nDequeued, dqbuf_errno, delivered, stdoutFrames,
                   nAgain, nIntr, termVars>>

\* while (count-- > 0): the test reads count, which is then one less.
mainloop_while ==
    /\ pc = "while"
    /\ count' = UDec(count)
    /\ pc' = IF count # UZero THEN "select" ELSE main_next("mainloop")
    /\ UNCHANGED <<args, c, obsVars, optVars, fd, fmt, i, poolVars, devVars, buf_index,
                   buf_bytesused, nDequeued, dqbuf_errno, delivered, stdoutFrames,
                   nAgain, nIntr, termVars>>

\* A break out of the inner loop whatever read_frame returned.
mainloop_after_read_frame_break(r) == "while"

\* What the inner for (;;) does with read_frame's result r: break when a frame
\* was read, else go round to select again.
mainloop_after_read_frame(r) == IF r # 0 THEN "while" ELSE "select"

\* select returning 0 taken as one more reason to wait again.
mainloop_select_timeout_retry == "continue"

\* What mainloop does when select returns 0:
\* fprintf(stderr, "select timeout\n"); exit(EXIT_FAILURE);
mainloop_select_timeout == "exit"

\* r = select(fd + 1, &fds, NULL, NULL, &tv) and the tests of r.  When select
\* reports fd ready read_frame is called, with a fresh buf.
mainloop_select ==
    /\ pc = "select"
    /\ \/ /\ nIntr < MaxIntr
          /\ nIntr' = nIntr + 1
          /\ UNCHANGED <<pc, termVars, buf_index, buf_bytesused, dqbuf_errno, stalled>>
       \/ \E e \in Errnos :
            /\ errno_exit("select", e)
            /\ UNCHANGED <<nIntr, buf_index, buf_bytesused, dqbuf_errno, stalled>>
       \/ /\ stalled' = TRUE
          /\ IF mainloop_select_timeout = "exit"
               THEN Exit(EXIT_FAILURE, "select timeout")
               ELSE UNCHANGED <<pc, termVars>>
          /\ UNCHANGED <<nIntr, buf_index, buf_bytesused, dqbuf_errno>>
       \/ /\ pc' = "DQBUF"
          /\ buf_index' = 0
          /\ buf_bytesused' = 0
          /\ dqbuf_errno' = "none"
          /\ UNCHANGED <<nIntr, termVars, stalled>>
    /\ UNCHANGED <<args, c, crop_errno, logVars, optVars, fd, fmt, i, poolVars, devVars,
                   count, nDequeued, delivered, stdoutFrames, nAgain>>

\* ------------------------------------------------------- read_frame
\* The switch with EIO ignored: case EIO: return 0.
read_frame_errno_eio_ignored(e) ==
    IF e \in {"EAGAIN", "EIO"} THEN "return 0" ELSE "errno_exit"

\* Every failure of VIDIOC_DQBUF taken as "no frame yet": return 0.
read_frame_errno_all_retried(e) == "return 0"

\* The switch on errno after a failed VIDIOC_DQBUF: EAGAIN returns 0; EIO falls
\* through to the default, errno_exit.
read_frame_errno(e) == IF e = "EAGAIN" THEN "return 0" ELSE "errno_exit"

\* read_frame queueing the buffer again before it processes the image.
read_frame_next_requeue_first(step) ==
    CASE step = "DQBUF"         -> "assert"
      [] step = "assert"        -> "QBUF"
      [] step = "QBUF"          -> "process_image"
      [] step = "process_image" -> "return 1"

\* The order of read_frame's statements after a successful VIDIOC_DQBUF.
read_frame_next(step) ==
    CASE step = "DQBUF"         -> "assert"
      [] step = "assert"        -> "process_image"
      [] step = "process_image" -> "QBUF"
      [] step = "QBUF"          -> "return 1"

\* The step of read_frame after `step`; at return 1 buf is gone and mainloop
\* goes on.
read_frame_goto(step) ==
    IF read_frame_next(step) = "return 1"
      THEN /\ pc' = mainloop_after_read_frame(1)
           /\ buf_index' = 0
           /\ buf_bytesused' = 0
      ELSE /\ pc' = read_frame_next(step)
           /\ UNCHANGED <<buf_index, buf_bytesused>>

\* VIDIOC_DQBUF.  The device answers with an error or with the index and the
\* bytesused of a buffer; an index may lie outside the pool.
read_frame_DQBUF ==
    /\ pc = "DQBUF"
    /\ \/ \E e \in Errnos :
            /\ dqbuf_errno' = e
            /\ IF read_frame_errno(e) = "return 0"
                 THEN /\ nAgain' = IF nAgain < MaxAgain THEN nAgain + 1 ELSE nAgain
                      /\ pc' = mainloop_after_read_frame(0)
                      /\ UNCHANGED termVars
                 ELSE /\ errno_exit("VIDIOC_DQBUF", e)
                      /\ UNCHANGED nAgain
            /\ UNCHANGED <<buf_index, buf_bytesused, devOwned, procOwned, nDequeued>>
       \/ /\ nDequeued < MaxFrames
          /\ \E idx \in 0..MaxGrant :
               \E used \in (IF idx \in Pool THEN 0..devLen[idx] ELSE {0}) :
                  /\ buf_index' = idx
                  /\ buf_bytesused' = used
                  /\ devOwned' = devOwned \ {idx}
                  /\ procOwned' = procOwned \cup ({idx} \cap Pool)
          /\ nDequeued' = nDequeued + 1
          /\ pc' = read_frame_next("DQBUF")
          /\ UNCHANGED <<nAgain, dqbuf_errno, termVars>>
    /\ UNCHANGED <<args, c, obsVars, optVars, fd, fmt, i, poolVars, queuedLog, streamState,
                   count, delivered, stdoutFrames, nIntr>>

\* The test off by one: assert(buf.index <= n_buffers).
read_frame_assert_le(index, n) == index <= n

\* The condition asserted: buf.index < n_buffers.
read_frame_assert_cond(index, n) == index < n

\* assert(buf.index < n_buffers): a failed assertion aborts the process.
read_frame_assert ==
    /\ pc = "assert"
    /\ IF read_frame_assert_cond(buf_index, n_buffers)
         THEN /\ read_frame_goto("assert")
              /\ UNCHANGED termVars
         ELSE /\ term' = "abort"
              /\ diag' = [msg |-> "Assertion failed", errno |-> "none"]
              /\ pc' = "exited"
              /\ UNCHANGED <<exit_status, buf_index, buf_bytesused>>
    /\ UNCHANGED <<args, c, obsVars, optVars, fd, fmt, i, poolVars, devVars, count, nDequeued,
                   dqbuf_errno, delivered, stdoutFrames, nAgain, nIntr>>

\* process_image(buffers[buf.index].start, buf.bytesused): the frame goes to
\* stdout if out_buf, and a mark to stderr.
process_image ==
    /\ pc = "process_image"
    /\ stdoutFrames' = IF out_buf # 0 THEN stdoutFrames + 1 ELSE stdoutFrames
    /\ delivered' = delivered + 1
    /\ read_frame_goto("process_image")
    /\ UNCHANGED <<args, c, obsVars, optVars, fd, fmt, i, poolVars, devVars, count, nDequeued,
                   dqbuf_errno, nAgain, nIntr, termVars>>

\* read_frame queueing index 0 whatever it dequeued.
read_frame_QBUF_index_zero(b) == 0

\* The index read_frame gives back: xioctl(fd, VIDIOC_QBUF, &buf), buf as
\* VIDIOC_DQBUF filled it.
read_frame_QBUF_index(b) == b

\* VIDIOC_QBUF of buf; with it the process gives up the buffer.
read_frame_QBUF ==
    /\ pc = "QBUF"
    /\ \/ \E e \in Errnos :
            /\ errno_exit("VIDIOC_QBUF", e)
            /\ UNCHANGED <<buf_index, buf_bytesused, devOwned, procOwned>>
       \/ /\ devOwned' = devOwned \cup {read_frame_QBUF_index(buf_index)}
          /\ procOwned' = {}
          /\ read_frame_goto("QBUF")
          /\ UNCHANGED termVars
    /\ UNCHANGED <<args, c, obsVars, optVars, fd, fmt, i, poolVars, queuedLog, streamState,
                   count, nDequeued, dqbuf_errno, delivered, stdoutFrames, nAgain,
                   nIntr>>

\* --------------------------------------------------- stop_capturing
\* stop_capturing unmapping the buffers itself once the stream is off.
stop_capturing_unmaps ==
    /\ pc = "STREAMOFF"
    /\ \/ \E e \in Errnos :
            /\ errno_exit("VIDIOC_STREAMOFF", e)
            /\ UNCHANGED <<i, streamState, mapped>>
       \/ /\ streamState' = "stopped"
          /\ mapped' = {}
          /\ i' = 0
          /\ pc' = main_next("stop_capturing")
          /\ UNCHANGED termVars
    /\ UNCHANGED <<args, c, obsVars, optVars, fd, fmt, buffers, n_buffers, req_count,
                   pool, devLen, devOwned, procOwned, queuedLog, loopVars, nIntr>>

\* xioctl(fd, VIDIOC_STREAMOFF, &type), and nothing else: the buffers stay as
\* they are, queued or not, and mapped.
stop_capturing ==
    /\ pc = "STREAMOFF"
    /\ \/ \E e \in Errnos :
            /\ errno_exit("VIDIOC_STREAMOFF", e)
            /\ UNCHANGED <<i, streamState>>
       \/ /\ streamState' = "stopped"
          /\ i' = 0
          /\ pc' = main_next("stop_capturing")
          /\ UNCHANGED termVars
    /\ UNCHANGED <<args, c, obsVars, optVars, fd, fmt, poolVars, devOwned, procOwned, queuedLog,
                   loopVars, nIntr>>

\* ---------------------------------------------------- uninit_device
\* munmap(buffers[i].start, buffers[i].length), ++i and the loop test; a
\* failed munmap ends the process at once.
uninit_device_munmap ==
    /\ pc = "munmap"
    /\ \/ /\ errno_exit("munmap", "EINVAL")
          /\ UNCHANGED <<i, mapped, unmapLog>>
       \/ /\ mapped' = mapped \ {buffers[i].start - 1}
          /\ unmapLog' = Append(unmapLog, buffers[i].start - 1)
          /\ i' = i + 1
          /\ pc' = IF i + 1 < n_buffers THEN "munmap" ELSE "free"
          /\ UNCHANGED termVars
    /\ UNCHANGED <<args, c, crop_errno, stalled, queryLog, mapLog, nFree, optVars, fd,
                   fmt, buffers, n_buffers, req_count, pool, devLen, devVars,
                   loopVars, nIntr>>

\* free(buffers)
uninit_device_free ==
    /\ pc = "free"
    /\ pool' = "freed"
    /\ nFree' = nFree + 1
    /\ pc' = main_next("uninit_device")
    /\ UNCHANGED <<args, c, crop_errno, stalled, queryLog, mapLog, unmapLog, optVars,
                   fd, fmt, i, buffers, n_buffers, req_count, mapped, devLen, devVars,
                   loopVars, nIntr, termVars>>

\* ----------------------------------------------------- close_device
close_device ==
    /\ pc = "close"
    /\ \/ /\ errno_exit("close", "EIO")
          /\ UNCHANGED fd
       \/ /\ fd' = -1
          /\ pc' = main_next("close_device")
          /\ UNCHANGED termVars
    /\ UNCHANGED <<args, c, obsVars, optVars, fmt, i, poolVars, devVars, loopVars, nIntr>>

\* fprintf(stderr, "\n"); return 0;
main_return ==
    /\ pc = "return"
    /\ Exit(0, "")
    /\ UNCHANGED <<args, c, obsVars, optVars, fd, fmt, i, poolVars, devVars, loopVars, nIntr>>

Next ==
    \/ main_getopt
    \/ xioctl
    \/ open_device_stat
    \/ open_device_open
    \/ init_device_QUERYCAP
    \/ init_device_CROPCAP
    \/ init_device_S_CROP
    \/ init_device_FMT
    \/ init_mmap_REQBUFS
    \/ init_mmap_calloc
    \/ init_mmap_QUERYBUF
    \/ init_mmap_mmap
    \/ start_capturing_QBUF
    \/ start_capturing_STREAMON
    \/ mainloop_enter
    \/ mainloop_while
    \/ mainloop_select
    \/ read_frame_DQBUF
    \/ read_frame_assert
    \/ process_image
    \/ read_frame_QBUF
    \/ stop_capturing
    \/ uninit_device_munmap
    \/ uninit_device_free
    \/ close_device
    \/ main_return

Spec == Init /\ [][Next]_vars

\* The process keeps running: every call it makes returns (select after its
\* timeout at the latest), so a process that can take a step does take one.
FairSpec == Spec /\ WF_vars(Next)

\* ------------------------------------------------------------ claims
\* The stream is on: start_capturing has completed and stop_capturing has not
\* yet switched the stream off.
Streaming == streamState = "on"

\* The calls main makes after mainloop has returned.
AfterMainloop == {"STREAMOFF", "munmap", "free", "close", "return"}

\* C1: while the stream is on (after start_capturing, before stream-off), the
\* buffers the process holds and the buffers queued at the device are disjoint
\* sets whose union is the whole pool 0..n_buffers-1.
C1_OwnershipPartition ==
    Streaming => /\ devOwned \cap procOwned = {}
                 /\ devOwned \cup procOwned = Pool

\* C1 witness: buffer 1 of three is with the process, being delivered.
C1_Witness ==
    /\ Streaming
    /\ pc = "process_image"
    /\ procOwned = {1}
    /\ devOwned = {0, 2}

\* C2: when mainloop has returned for a frame count N = frame_count >= 0,
\* process_image was called exactly N times, once per successful dequeue,
\* however many EAGAIN and EINTR answers came in between.
C2_FrameCount ==
    (pc \in AfterMainloop /\ frame_count >= 0)
        => (delivered = frame_count /\ nDequeued = delivered)

\* C2 witness: mainloop has just returned after 2 frames, with not-ready and
\* interrupted answers on the way.
C2_Witness ==
    /\ pc = "STREAMOFF"
    /\ frame_count = 2
    /\ delivered = 2
    /\ nAgain = MaxAgain
    /\ nIntr = MaxIntr

\* C3: in the capture loop at most one buffer is away from the device; a buffer
\* dequeued is delivered and then queued again before the next VIDIOC_DQBUF is
\* issued; and the buffer process_image reads is one the process holds, mapped
\* and not queued.
C3_OneBufferAtATime ==
    (Streaming /\ term = "running") =>
        /\ Cardinality(Pool \ devOwned) <= 1
        /\ Cardinality(procOwned) <= 1
        /\ pc \in {"select", "DQBUF"} =>
               (devOwned = Pool /\ procOwned = {} /\ delivered = nDequeued)
        /\ pc = "process_image" =>
               (/\ procOwned = {buf_index}
                /\ buf_index \notin devOwned
                /\ buf_index \in mapped
                /\ delivered + 1 = nDequeued)
        /\ pc = "QBUF" => (procOwned = {buf_index} /\ delivered = nDequeued)

\* C3 witness: the second frame, in buffer 2, is about to be queued again.
C3_Witness ==
    /\ Streaming
    /\ pc = "QBUF"
    /\ buf_index = 2
    /\ delivered = 2
    /\ devOwned = {0, 1}

\* C4: an EAGAIN answer to VIDIOC_DQBUF sends the loop back to select and
\* changes neither count nor the sink nor the queue; and with N = 5 and two
\* EAGAIN answers the sink has 5 deliveries when mainloop returns.
C4_NotReadyRetries ==
    /\ [][(pc = "DQBUF" /\ dqbuf_errno' = "EAGAIN") =>
            (/\ pc' = "select"
             /\ count' = count
             /\ delivered' = delivered
             /\ stdoutFrames' = stdoutFrames
             /\ nDequeued' = nDequeued
             /\ devOwned' = devOwned
             /\ procOwned' = procOwned
             /\ term' = "running")]_vars
    /\ []((pc \in AfterMainloop /\ frame_count = 5 /\ nAgain = 2) => delivered = 5)

\* C4 witness: N = 5, two EAGAIN answers, mainloop has returned.
C4_Witness ==
    /\ pc = "STREAMOFF"
    /\ frame_count = 5
    /\ nAgain = 2
    /\ delivered = 5

\* C5 as amended: a VIDIOC_DQBUF that fails with EIO ends the process through
\* errno_exit("VIDIOC_DQBUF"), exit code 1; capture does not go on.
C5_EIOIsFatal ==
    dqbuf_errno = "EIO" =>
        /\ term = "exit"
        /\ exit_status = EXIT_FAILURE
        /\ diag = [msg |-> "VIDIOC_DQBUF", errno |-> "EIO"]

\* C5 witness: EIO on the dequeue of the second frame.
C5_Witness ==
    /\ dqbuf_errno = "EIO"
    /\ delivered = 1
    /\ term = "exit"

\* C5 as claimed: after a VIDIOC_DQBUF that failed with EIO the process is
\* still running (the loop tolerates the error and goes on).
C5_EIOTolerated == dqbuf_errno = "EIO" => term = "running"

\* C6 as claimed: when the process has terminated, every buffer that was mapped
\* has been unmapped.
C6_PoolReleasedAtExit == term # "running" => mapped = {}

\* The normal end of main: every frame delivered, stream off, every buffer
\* unmapped, the pool freed, the handle closed, return 0.
NormalCompletion ==
    /\ diag.msg = ""
    /\ streamState = "stopped"
    /\ mapped = {}
    /\ pool = "freed"
    /\ fd = -1
    /\ frame_count >= 0 => delivered = frame_count

\* C7 as amended: the process ends with exit code 1 on every fatal condition
\* but one: a dequeued index outside the pool fails the assertion, and the
\* process is aborted (SIGABRT) instead of exiting with code 1.  Exit code 0
\* comes only from --help or from the normal end of main.
C7_ExitCodes ==
    /\ term # "running" =>
        \/ /\ term = "abort"
           /\ diag.msg = "Assertion failed"
           /\ buf_index >= n_buffers
        \/ /\ term = "exit"
           /\ exit_status = EXIT_FAILURE
           /\ diag.msg \notin {"", "Assertion failed"}
        \/ /\ term = "exit"
           /\ exit_status = EXIT_SUCCESS
           /\ \/ (c = "h" /\ diag.msg = "usage")
              \/ NormalCompletion
    /\ (req_count > 0 /\ req_count < MinBuffers) =>
           (/\ term = "exit"
            /\ exit_status = EXIT_FAILURE
            /\ diag.msg = "Insufficient buffer memory")
    /\ dqbuf_errno \notin {"none", "EAGAIN"} =>
           (term = "exit" /\ exit_status = EXIT_FAILURE)
    /\ diag.msg = "select timeout" => (term = "exit" /\ exit_status = EXIT_FAILURE)

\* C7 witness: the device handed back an index outside the pool, and the
\* process was aborted.
C7_Witness ==
    /\ term = "abort"
    /\ buf_index = n_buffers
    /\ nDequeued = 1

\* C7 as claimed: every termination is exit code 1, or exit code 0 after the
\* normal end of main.
C7_ExitOneOrNormalZero ==
    term # "running" =>
        /\ term = "exit"
        /\ \/ exit_status = EXIT_FAILURE
           \/ (exit_status = EXIT_SUCCESS /\ NormalCompletion)

\* C8 as claimed: with --format supplied the process goes on (it is not ended
\* by the option) and format negotiation is forced.
C8_FormatOptionForcesFormat == c = "f" => (term = "running" /\ force_format # 0)

\* C9 as amended: VIDIOC_DQBUF and read_frame's VIDIOC_QBUF are issued only
\* while the stream is on; start_capturing's VIDIOC_QBUF of each buffer is
\* issued before stream-on, while the stream is off.
C9_QueueCommandsAndStream ==
    /\ pc \in {"DQBUF", "QBUF"} => streamState = "on"
    /\ pc = "QBUF_init" => streamState = "off"

\* C9 witness: read_frame is about to queue a buffer again, the stream on.
C9_Witness ==
    /\ pc = "QBUF"
    /\ streamState = "on"
    /\ delivered = 1

\* C9 as claimed: every VIDIOC_QBUF and VIDIOC_DQBUF is issued while the stream
\* is on.
C9_AllQueueCommandsWhileStreaming ==
    pc \in {"QBUF_init", "DQBUF", "QBUF"} => streamState = "on"

\* Buffer k was mapped and has been unmapped.
Unmapped(k) == k \in DOMAIN buffers /\ buffers[k].start > 0 /\ k \notin mapped

\* C10: the session's operations come in main's order: the format is
\* negotiated on the open handle before buffers are reserved; a buffer is
\* queued only when every index is mapped; the stream is switched on only when
\* every index 0..n_buffers-1 has been queued exactly once; frames are dequeued
\* only after stream-on; a buffer is unmapped only after stream-off; the pool
\* is freed and the handle closed only when every buffer is unmapped.
C10_SessionOrder ==
    /\ fmt.width > 0 => (fd # -1 \/ pool = "freed")
    /\ req_count > 0 => fmt.width > 0
    /\ queuedLog # <<>> =>
           (n_buffers = req_count /\ \A k \in Pool : buffers[k].start > 0)
    /\ (queuedLog # <<>> /\ streamState = "off") => mapped = Pool
    /\ streamState # "off" =>
           (/\ Len(queuedLog) = n_buffers
            /\ \A k \in 1..n_buffers : queuedLog[k] = k - 1)
    /\ nDequeued > 0 => streamState # "off"
    /\ (\E k \in Pool : Unmapped(k)) => streamState = "stopped"
    /\ streamState = "stopped" => (frame_count >= 0 => delivered = frame_count)
    /\ pool = "freed" => mapped = {}
    /\ mapped # {} => fd # -1
    /\ (fd = -1 /\ pc \notin {"getopt", "stat", "open", "exited"}) =>
           (pool = "freed" /\ mapped = {} /\ streamState = "stopped")

\* C10 witness: main is about to return 0 after two frames.
C10_Witness ==
    /\ pc = "return"
    /\ fd = -1
    /\ mapped = {}
    /\ pool = "freed"
    /\ streamState = "stopped"
    /\ delivered = 2
\* C11: when select returns 0 (the timeout ran out with fd not ready) the
\* process ends with exit code 1, whatever the number of frames delivered so
\* far: the wait is not made again, and no VIDIOC_DQBUF, VIDIOC_QBUF or
\* VIDIOC_STREAMOFF follows (the step changes no buffer's owner and leaves the
\* stream on, and a process that has ended takes no further step).
C11_SelectTimeoutIsFatal ==
    /\ [](stalled =>
            (/\ term = "exit"
             /\ exit_status = EXIT_FAILURE
             /\ diag.msg = "select timeout"
             /\ streamState = "on"))
    /\ [][(stalled' /\ ~stalled) =>
            (/\ pc = "select"
             /\ pc' = "exited"
             /\ nDequeued' = nDequeued
             /\ delivered' = delivered
             /\ devOwned' = devOwned
             /\ procOwned' = procOwned
             /\ streamState' = streamState)]_vars
    /\ [][term = "running"]_vars

\* C11 witness: the first wait of the run timed out, no frame delivered.
C11_Witness ==
    /\ stalled
    /\ term = "exit"
    /\ delivered = 0
    /\ nDequeued = 0
    /\ streamState = "on"

\* C12: when VIDIOC_REQBUFS grants fewer than 2 buffers the process ends with
\* exit code 1 before any buffer is queried or mapped (the pool is not even
\* allocated), before any buffer is queued, before the stream is switched on,
\* and with no frame dequeued or delivered.
C12_InsufficientBuffers ==
    (req_count > 0 /\ req_count < MinBuffers) =>
        /\ term = "exit"
        /\ exit_status = EXIT_FAILURE
        /\ diag.msg = "Insufficient buffer memory"
        /\ pool = "none"
        /\ queryLog = <<>>
        /\ mapLog = <<>>
        /\ mapped = {}
        /\ queuedLog = <<>>
        /\ devOwned = {}
        /\ streamState = "off"
        /\ nDequeued = 0
        /\ delivered = 0

\* C12 witness: the device granted one buffer and the process has ended.
C12_Witness ==
    /\ req_count = 1
    /\ term = "exit"
    /\ diag.msg = "Insufficient buffer memory"

\* init_mmap has returned and the process is still running.
InitMmapReturned ==
    pc \in {"QBUF_init", "STREAMON", "mainloop", "while", "select", "DQBUF",
            "assert", "process_image", "QBUF"} \cup AfterMainloop

\* The sequence 0, 1, ..., n-1.
Ascending(n) == [k \in 1..n |-> k - 1]

\* C13: for a grant g >= 2, once init_mmap has returned n_buffers = g, every
\* index of 0..g-1 was queried and mapped exactly once, in ascending order, and
\* each descriptor holds the mapping of its own index and the length the device
\* reported for that index.
C13_PoolMatchesGrant ==
    InitMmapReturned =>
        /\ req_count >= MinBuffers
        /\ n_buffers = req_count
        /\ DOMAIN buffers = 0..(req_count - 1)
        /\ queryLog = Ascending(req_count)
        /\ mapLog = Ascending(req_count)
        /\ \A k \in 0..(req_count - 1) :
              /\ buffers[k].length = devLen[k]
              /\ buffers[k].length \in BufLengths
              /\ buffers[k].start = k + 1

\* C13 witness: three buffers granted, of lengths 1, 2 and 1, all mapped, and
\* start_capturing about to queue the first.
C13_Witness ==
    /\ pc = "QBUF_init"
    /\ i = 0
    /\ n_buffers = 3
    /\ mapped = {0, 1, 2}
    /\ buffers[0].length = 1
    /\ buffers[1].length = 2
    /\ buffers[2].length = 1

\* C14 as claimed: once uninit_device has been entered after the stream was
\* stopped, and has been left again (by its return or by the end of the
\* process, as when a munmap fails), every descriptor of 0..n_buffers-1 was
\* unmapped exactly once and the pool was freed exactly once.
C14_ReleaseUnmapsAllFreesOnce ==
    (streamState = "stopped" /\ pc \notin {"munmap", "free"}) =>
        /\ unmapLog = Ascending(n_buffers)
        /\ mapped = {}
        /\ nFree = 1
        /\ pool = "freed"

\* C15: stop_capturing issues VIDIOC_STREAMOFF and nothing else: its step
\* dequeues no buffer and leaves n_buffers, every descriptor (mapping and
\* length), the set of mapped regions and the pool's storage as they were;
\* munmap and free run only afterwards, in uninit_device, which starts with
\* every buffer still mapped.
C15_StopOnlyStreamsOff ==
    /\ [][pc = "STREAMOFF" =>
            (/\ pc' \in {"STREAMOFF", "munmap", "exited"}
             /\ nDequeued' = nDequeued
             /\ procOwned' = procOwned
             /\ delivered' = delivered
             /\ n_buffers' = n_buffers
             /\ buffers' = buffers
             /\ mapped' = mapped
             /\ pool' = pool
             /\ unmapLog' = unmapLog
             /\ nFree' = nFree)]_vars
    /\ []((unmapLog # <<>> \/ nFree > 0 \/ pc \in {"munmap", "free"})
            => streamState = "stopped")
    /\ []((pc = "munmap" /\ i = 0) => (mapped = Pool /\ pool = "allocated"))

\* C15 witness: the stream was stopped after two frames; the three buffers are
\* still mapped and uninit_device is about to unmap the first.
C15_Witness ==
    /\ pc = "munmap"
    /\ i = 0
    /\ streamState = "stopped"
    /\ delivered = 2
    /\ mapped = {0, 1, 2}
    /\ unmapLog = <<>>

\* C16: when VIDIOC_DQBUF succeeds with an index outside 0..n_buffers-1 the
\* process ends (the assertion aborts it) before the index is used:
\* process_image is not called for it, buffers[] is read and VIDIOC_QBUF is
\* issued only with an index inside the pool, and nothing is queued for it.
C16_IndexOutOfRangeAborts ==
    /\ [](pc \in {"process_image", "QBUF"} => buf_index \in Pool)
    /\ [](devOwned \subseteq Pool)
    /\ [][(pc = "assert" /\ buf_index \notin Pool) =>
            (/\ term' = "abort"
             /\ pc' = "exited"
             /\ delivered' = delivered
             /\ stdoutFrames' = stdoutFrames
             /\ devOwned' = devOwned
             /\ procOwned' = procOwned)]_vars
    /\ [](term = "abort" =>
            (buf_index \notin Pool /\ delivered + 1 = nDequeued /\ procOwned = {}))

\* C16 witness: after one good frame the device handed back index 3 of a pool
\* of two buffers, and the process was aborted with one frame delivered.
C16_Witness ==
    /\ term = "abort"
    /\ n_buffers = 2
    /\ buf_index = 3
    /\ nDequeued = 2
    /\ delivered = 1

\* C17: an EINTR answer to any ioctl made through xioctl, or to select, is
\* retried silently: the step that takes it leaves the process running at the
\* same call (which is issued again), does not decrement count and changes
\* nothing else of the program or the device.
C17_InterruptedIsRetried ==
    [][nIntr' # nIntr =>
         (/\ pc \in IoctlSites \cup {"select"}
          /\ pc' = pc
          /\ term = "running"
          /\ term' = "running"
          /\ count' = count
          /\ UNCHANGED <<args, c, optVars, fd, fmt, i, poolVars, devVars, loopVars,
                         termVars, obsVars>>)]_vars

\* C17 witness: an interrupted call was retried on the way, and the loop is
\* waiting for its second frame.
C17_Witness ==
    /\ nIntr = MaxIntr
    /\ pc = "select"
    /\ frame_count = 2
    /\ delivered = 1
    /\ term = "running"

\* C18: a failure of VIDIOC_CROPCAP or of VIDIOC_S_CROP, with EINVAL or any
\* other errno, does not end the process: the step that takes the failure
\* leaves it running with the format ioctl as its next call, and from there
\* only a failure of the format ioctl itself keeps VIDIOC_REQBUFS (buffer
\* allocation) from coming next.
C18_CropFailureIgnored ==
    /\ [](crop_errno # "none" => (term = "running" /\ pc = "FMT"))
    /\ [][(pc \in {"CROPCAP", "S_CROP"}) =>
            (term' = "running" /\ pc' \in {pc, "S_CROP", "FMT"})]_vars
    /\ [][(pc = "FMT" /\ crop_errno # "none") =>
            \/ pc' = "REQBUFS" /\ term' = "running"
            \/ pc' = "FMT" /\ term' = "running"
            \/ pc' = "exited" /\ diag'.msg \in {"VIDIOC_G_FMT", "VIDIOC_S_FMT"}]_vars

\* C18 witness: a crop ioctl has failed with EIO and the format ioctl is next.
C18_Witness ==
    /\ crop_errno = "EIO"
    /\ pc = "FMT"
    /\ term = "running"

\* mainloop is over: it has returned to main, or the process has ended.
MainloopEnded == pc \in AfterMainloop \/ term # "running"

\* C19 as amended: once the stream is on, mainloop ends (by its return or by
\* the end of the process) unless the device keeps answering EAGAIN to
\* VIDIOC_DQBUF for ever, each answer sending mainloop back to select.
C19_LoopEndsUnlessNotReadyForever ==
    \/ []<>(pc = "select" /\ dqbuf_errno = "EAGAIN")
    \/ Streaming ~> MainloopEnded

\* C19 witness: mainloop has returned with its one frame after a not-ready
\* and an interrupted answer.
C19_Witness ==
    /\ pc = "STREAMOFF"
    /\ frame_count = 1
    /\ delivered = 1
    /\ nAgain = 1
    /\ nIntr = 1

\* C19 as claimed: once the stream is on, mainloop always ends, whatever the
\* device answers.
C19_LoopAlwaysEnds == Streaming ~> MainloopEnded

\* C20: the budget mainloop starts from is the --count value as an unsigned
\* 32-bit integer.  frame_count is the low 32 bits of what strtol returned;
\* count = frame_count makes a frame_count >= 0 the budget itself and a
\* frame_count < 0 the budget 2^32 - |frame_count| (written here as
\* (2^32 - 1) - (|frame_count| - 1), in half words).  A negative count does
\* not end the process.  With frame_count = 0 mainloop makes no select and no
\* VIDIOC_DQBUF, yet the stream was switched on before it and is switched off
\* after it.
C20_CountIsUnsigned ==
    /\ [][(pc = "getopt" /\ c' = "c" /\ ~Head(args).erange) =>
            (/\ frame_count' = Head(args).val.lo
             /\ term' = "running"
             /\ pc' = "getopt")]_vars
    /\ [][pc = "mainloop" =>
            (/\ pc' = "while"
             /\ count' = IF frame_count >= 0
                           THEN [hi |-> frame_count \div HalfWord,
                                 lo |-> frame_count % HalfWord]
                           ELSE [hi |-> (HalfWord - 1)
                                         - ((-(frame_count + 1)) \div HalfWord),
                                 lo |-> (HalfWord - 1)
                                         - ((-(frame_count + 1)) % HalfWord)])]_vars
    /\ []((frame_count < 0 /\ pc = "while" /\ nDequeued = 0) =>
            (count # UZero /\ term = "running"))
    /\ [](frame_count = 0 =>
            (/\ pc \notin {"select", "DQBUF", "assert", "process_image", "QBUF"}
             /\ ~stalled
             /\ nDequeued = 0
             /\ delivered = 0))
    /\ []((frame_count = 0 /\ pc = "STREAMOFF") => streamState = "on")
    /\ []((frame_count = 0 /\ pc \in AfterMainloop \ {"STREAMOFF"})
            => streamState = "stopped")

\* C20 witness: --count -1; one frame is delivered and the budget left is
\* 2^32 - 2.
C20_Witness ==
    /\ frame_count = -1
    /\ pc = "while"
    /\ delivered = 1
    /\ count = [hi |-> HalfWord - 1, lo |-> HalfWord - 2]
    /\ term = "running"

====
